---- MODULE Spec2Model ----
(***************************************************************************)
(* Model of cornucopia's semantic validation pass (src/src/validation.rs)  *)
(* and of its database container set-up (src/src/container.rs).            *)
(*                                                                         *)
(* Every validator of the source is an operator of the same name that      *)
(* returns Ok(value), Err(error) or Panic (an unreachable!() was hit).     *)
(* The state machine calls one validator on one input (Call_* actions) or  *)
(* runs validate_module step by step (vm_* actions), recording the call,   *)
(* its result and the checks it ran.                                       *)
(*                                                                         *)
(* Strings are sequences of character codes, ordered lexicographically as  *)
(* Rust's String is.  Parsed<T> is [start, end, value].  The shared        *)
(* ModuleInfo handle that every Error clones is left out: no validator     *)
(* reads it.                                                               *)
(*                                                                         *)
(* setup runs one subprocess per step (setup_* actions): the container     *)
(* runtime's answer to each is the environment's choice.  The sleep        *)
(* between two probes is a step of its own.                                *)
(***************************************************************************)
EXTENDS Integers, Sequences, FiniteSets, TLC

VARIABLES pc, call, result, i, validated_queries, steps,
          spawned, nb_retries, probes, notices

\* container.rs: how `run` ended, healthcheck's counter, the outcome of every
\* health probe so far, the progress notices printed
container_vars == <<spawned, nb_retries, probes, notices>>

vars == <<pc, call, result, i, validated_queries, steps,
          spawned, nb_retries, probes, notices>>

----------------------------------------------------------------------------
(* Bounds of the model *)

\* longest PreparedField list handed to named_struct_field
MaxPrepared == 2
\* longest bind-parameter list of one query
MaxBind == 3
\* longest declared field list
MaxIdents == 4
\* largest small bind index / small offset around the i16 limits
MaxIndex == 3
\* most declared parameters of a query in the range and usage checks
MaxParams == 2
\* most queries handed to query_name_already_used
MaxQueries == 4
\* most queries of a module handed to validate_module
MaxModuleQueries == 2

(* Program constants *)

\* i16::MAX, the largest index i16::try_from accepts
I16_MAX == 32767
\* setup's max_retries
MaxRetries == 120
\* healthcheck prints a notice every so many retries
NoticeEvery == 10

----------------------------------------------------------------------------
(* Results *)

Ok(v) == [tag |-> "Ok", value |-> v]
Err(e) == [tag |-> "Err", err |-> e]
\* unreachable!() was executed
Panic == [tag |-> "Panic"]
None == [tag |-> "None"]
Unit == <<>>

is_ok(r) == r.tag = "Ok"
is_err(r) == r.tag = "Err"

----------------------------------------------------------------------------
(* Generic sequence helpers *)

SeqsUpTo(S, n) == UNION {[1..k -> S] : k \in 0..n}

Range(s) == {s[k] : k \in DOMAIN s}

\* Iterator::find over a predicate's values, one per element in order: the
\* index of the first TRUE, 0 if there is none
FirstIndex(found) ==
    IF \E k \in DOMAIN found : found[k]
    THEN CHOOSE k \in DOMAIN found : found[k] /\ \A j \in 1..(k - 1) : ~found[j]
    ELSE 0

----------------------------------------------------------------------------
(* Strings and Parsed<T> *)

\* String's Ord: lexicographic on the character codes, a proper prefix first
RECURSIVE StrLess(_, _)
StrLess(s, t) ==
    IF t = <<>> THEN FALSE
    ELSE IF s = <<>> THEN TRUE
    ELSE IF s[1] < t[1] THEN TRUE
    ELSE IF s[1] > t[1] THEN FALSE
    ELSE StrLess(Tail(s), Tail(t))

\* Parsed<T>: PartialEq compares the value only, never the offsets
ParsedEq(p, q) == p.value = q.value

\* Parsed<String>: Ord compares the value only
ParsedStrLess(p, q) == StrLess(p.value, q.value)

\* Parsed<i16>: Ord compares the value only
ParsedI16Less(p, q) == p.value < q.value

\* slice::sort is stable: element k lands after every smaller element and after
\* every equal element that precedes it in the input
\* (less[j][k]: element j compares less than element k)
sort(s, less) ==
    LET rank(k) == 1 + Cardinality({j \in DOMAIN s :
                        less[j][k] \/ (~less[k][j] /\ j < k)})
    IN [r \in DOMAIN s |-> s[CHOOSE k \in DOMAIN s : rank(k) = r]]

\* Vec::dedup: of each run of consecutive equal elements the first is kept
RECURSIVE dedup(_)
dedup(s) ==
    IF Len(s) <= 1 THEN s
    ELSE LET init == dedup(SubSeq(s, 1, Len(s) - 1))
         IN IF ParsedEq(init[Len(init)], s[Len(s)]) THEN init
            ELSE Append(init, s[Len(s)])

----------------------------------------------------------------------------
(* validation.rs: the validators *)

Some(x) == [tag |-> "Some", value |-> x]

\* utils::has_duplicate: the first element, in order, whose key an earlier
\* element already had (keys: the mapper's value for each element)
has_duplicate(s, keys) ==
    LET seen_before(k) == \E j \in 1..(k - 1) : keys[j] = keys[k]
    IN IF \E k \in DOMAIN s : seen_before(k)
       THEN Some(s[CHOOSE k \in DOMAIN s :
                        seen_before(k) /\ \A j \in 1..(k - 1) : ~seen_before(j)])
       ELSE None

\* a plausible slip: the whole NullableIdent as the key, not its name
duplicate_nullable_ident_by_value(idents) ==
    LET dup == has_duplicate(idents, [k \in DOMAIN idents |-> idents[k].value])
    IN IF dup.tag = "Some"
       THEN Err([variant |-> "DuplicateCol", pos |-> dup.value.start])
       ELSE Ok(Unit)

duplicate_nullable_ident(idents) ==
    LET dup == has_duplicate(idents, [k \in DOMAIN idents |-> idents[k].value.name])
    IN IF dup.tag = "Some"
       THEN Err([variant |-> "DuplicateCol", pos |-> dup.value.start])
       ELSE Ok(Unit)

is_extended(bind_param) == bind_param.value.variant = "Extended"

\* the first bind parameter is the gauge of the syntax; no parameter: extended
syntax_is_extended(bind_params) ==
    IF Len(bind_params) = 0 THEN TRUE ELSE is_extended(bind_params[1])

\* a plausible slip: the gauge's own position is reported
ambiguous_bind_param_gauge_pos(bind_params) ==
    LET ext == syntax_is_extended(bind_params)
        k == FirstIndex([j \in DOMAIN bind_params |-> ext # is_extended(bind_params[j])])
    IN IF k # 0
       THEN Err([variant |-> "AmbiguousBindParam", pos |-> bind_params[1].start])
       ELSE Ok(ext)

ambiguous_bind_param(bind_params) ==
    LET ext == syntax_is_extended(bind_params)
        k == FirstIndex([j \in DOMAIN bind_params |-> ext # is_extended(bind_params[j])])
    IN IF k # 0
       THEN Err([variant |-> "AmbiguousBindParam", pos |-> bind_params[k].start])
       ELSE Ok(ext)

\* a plausible slip: `index as i16`, which wraps instead of failing
i16_index_truncating(bind_param) ==
    IF bind_param.value.variant = "Extended" THEN Panic
    ELSE LET low16 == bind_param.value.index % (2 * (I16_MAX + 1))
             i16_index_ == IF low16 > I16_MAX THEN low16 - 2 * (I16_MAX + 1) ELSE low16
         IN IF i16_index_ = 0
            THEN Err([variant |-> "InvalidI16Index", pos |-> bind_param.start])
            ELSE Ok([start |-> bind_param.start, end |-> bind_param.end,
                     value |-> i16_index_])

i16_index(bind_param) ==
    IF bind_param.value.variant = "Extended" THEN Panic
    ELSE LET usize_index == bind_param.value.index
         IN IF usize_index > I16_MAX
            THEN Err([variant |-> "InvalidI16Index", pos |-> bind_param.start])
            ELSE IF usize_index = 0
            THEN Err([variant |-> "InvalidI16Index", pos |-> bind_param.start])
            ELSE Ok([start |-> bind_param.start, end |-> bind_param.end,
                     value |-> usize_index])

named_struct_field(name, prev_fields, fields) ==
    IF Len(prev_fields) = Len(fields)
       \/ \A k \in DOMAIN prev_fields : prev_fields[k] \in Range(fields)
    THEN Ok(Unit)
    ELSE Err([variant |-> "NamedStructInvalidFields", expected |-> prev_fields,
              actual |-> fields, name |-> name])

\* a plausible slip: the row is never looked at before it is unpacked
named_struct_in_pg_query_row_unguarded(annotation) ==
    IF annotation.param.variant = "Named"
    THEN Err([variant |-> "NamedStructInPgQuery", pos |-> annotation.param.name.start])
    ELSE IF annotation.param.variant # "Implicit" THEN Panic
    ELSE IF annotation.row.variant # "Implicit" THEN Panic
    ELSE Ok([param |-> annotation.param.idents, row |-> annotation.row.idents])

named_struct_in_pg_query(annotation) ==
    IF annotation.param.variant = "Named"
    THEN Err([variant |-> "NamedStructInPgQuery", pos |-> annotation.param.name.start])
    ELSE IF annotation.row.variant = "Named"
    THEN Err([variant |-> "NamedStructInPgQuery", pos |-> annotation.row.name.start])
    ELSE IF annotation.param.variant # "Implicit" THEN Panic
    ELSE IF annotation.row.variant # "Implicit" THEN Panic
    ELSE Ok([param |-> annotation.param.idents, row |-> annotation.row.idents])

\* `value as usize > len` for an i16 value: the cast sign-extends, so a
\* negative value becomes at least 2^64 - 2^15, which is above the length of
\* any slice (at most isize::MAX); a value >= 0 keeps its magnitude.
as_usize_gt(value, len) == value < 0 \/ value > len

\* `value as usize == n` for an i16 value and a count n >= 0: a negative value
\* wraps above every count and so equals none.
as_usize_eq(value, n) == value >= 0 /\ value = n

\* a plausible slip: >= for >
more_bind_params_than_params_ge(params, deduped_bind_params) ==
    LET params_len == Len(params)
        k == FirstIndex([j \in DOMAIN deduped_bind_params |->
                            \/ as_usize_gt(deduped_bind_params[j].value, params_len)
                            \/ deduped_bind_params[j].value = params_len])
    IN IF k # 0
       THEN Err([variant |-> "MoreBindParamsThanParams", nb_params |-> Len(params),
                 pos |-> deduped_bind_params[k].start])
       ELSE Ok(Unit)

more_bind_params_than_params(params, deduped_bind_params) ==
    LET params_len == Len(params)
        k == FirstIndex([j \in DOMAIN deduped_bind_params |->
                            as_usize_gt(deduped_bind_params[j].value, params_len)])
    IN IF k # 0
       THEN Err([variant |-> "MoreBindParamsThanParams", nb_params |-> Len(params),
                 pos |-> deduped_bind_params[k].start])
       ELSE Ok(Unit)

\* a plausible slip: the bind index compared with the 0-based position
unused_param_zero_based(params, bind_params) ==
    LET used(index) == \E k \in DOMAIN bind_params : as_usize_eq(bind_params[k].value, index)
        unused == {index \in 0..(Len(params) - 1) : ~used(index)}
    IN IF unused # {}
       THEN LET index == CHOOSE x \in unused : \A y \in unused : x <= y
            IN Err([variant |-> "UnusedParam", index |-> index + 1,
                    pos |-> params[index + 1].start])
       ELSE Ok(Unit)

\* index is the 0-based position of enumerate()
unused_param(params, bind_params) ==
    LET used(index) == \E k \in DOMAIN bind_params :
                           as_usize_eq(bind_params[k].value, index + 1)
        unused == {index \in 0..(Len(params) - 1) : ~used(index)}
    IN IF unused # {}
       THEN LET index == CHOOSE x \in unused : \A y \in unused : x <= y
            IN Err([variant |-> "UnusedParam", index |-> index + 1,
                    pos |-> params[index + 1].start])
       ELSE Ok(Unit)

\* a plausible slip: the pair reported the other way round
query_name_already_used_swapped(queries) ==
    LET other(k) == FirstIndex([j \in DOMAIN queries |->
                        j # k /\ ParsedEq(queries[j].annotation.name,
                                          queries[k].annotation.name)])
        k == FirstIndex([j \in DOMAIN queries |-> other(j) # 0])
    IN IF k # 0
       THEN Err([variant |-> "QueryNameAlreadyUsed",
                 name1 |-> queries[other(k)].annotation.name,
                 name2 |-> queries[k].annotation.name])
       ELSE Ok(Unit)

\* other(k): the first query that is not query k and has its name, 0 if none
query_name_already_used(queries) ==
    LET other(k) == FirstIndex([j \in DOMAIN queries |->
                        j # k /\ ParsedEq(queries[j].annotation.name,
                                          queries[k].annotation.name)])
        k == FirstIndex([j \in DOMAIN queries |-> other(j) # 0])
    IN IF k # 0
       THEN Err([variant |-> "QueryNameAlreadyUsed",
                 name1 |-> queries[k].annotation.name,
                 name2 |-> queries[other(k)].annotation.name])
       ELSE Ok(Unit)

\* the first result of rs, in order, that is not Ok (the ? operator, and
\* collect::<Result<_, _>>, stop there); None if all are Ok
first_failure(rs) ==
    LET k == FirstIndex([j \in DOMAIN rs |-> ~is_ok(rs[j])])
    IN IF k = 0 THEN None ELSE rs[k]

\* QuerySql::normalize_sql: the placeholder substitution, kept opaque
normalize_sql(sql, sql_start) == [normalized |-> sql.sql_str, sql_start |-> sql_start]

\* the name of each Extended bind parameter, with its offsets
extended_names(bind_params) ==
    [k \in DOMAIN bind_params |->
        IF bind_params[k].value.variant = "Extended"
        THEN Ok([start |-> bind_params[k].start, end |-> bind_params[k].end,
                 value |-> bind_params[k].value.name])
        ELSE Panic]

\* a plausible slip: dedup without the sort before it
extended_bind_params_unsorted(names) == dedup(names)

\* bind_params.sort(); bind_params.dedup()
extended_bind_params(names) ==
    dedup(sort(names, [j \in DOMAIN names |->
                          [k \in DOMAIN names |-> ParsedStrLess(names[j], names[k])]]))

\* deduped_bind_params.sort(); deduped_bind_params.dedup()
pg_deduped_bind_params(bind_params) ==
    dedup(sort(bind_params, [j \in DOMAIN bind_params |->
                                [k \in DOMAIN bind_params |->
                                    ParsedI16Less(bind_params[j], bind_params[k])]]))

validate_query_extended(query) ==
    LET names == extended_names(query.sql.bind_params)
    IN IF first_failure(names) # None THEN first_failure(names)
       ELSE Ok([variant |-> "Extended",
                name |-> query.annotation.name,
                params |-> query.annotation.param,
                bind_params |-> extended_bind_params([k \in DOMAIN names |-> names[k].value]),
                row |-> query.annotation.row,
                sql_str |-> normalize_sql(query.sql, query.sql_start)])

\* a plausible slip: the named-struct guard run before the indices are narrowed
validate_query_pg_guard_first(query) ==
    LET indexed == [k \in DOMAIN query.sql.bind_params |-> i16_index(query.sql.bind_params[k])]
        guard == named_struct_in_pg_query(query.annotation)
    IN IF ~is_ok(guard) THEN guard
       ELSE IF first_failure(indexed) # None THEN first_failure(indexed)
       ELSE LET bind_params == [k \in DOMAIN indexed |-> indexed[k].value]
                deduped_bind_params == pg_deduped_bind_params(bind_params)
                params == guard.value.param
                row == guard.value.row
                more == more_bind_params_than_params(params, deduped_bind_params)
                unused == unused_param(params, bind_params)
            IN IF ~is_ok(more) THEN more
               ELSE IF ~is_ok(unused) THEN unused
               ELSE Ok([variant |-> "PgCompatible",
                        name |-> query.annotation.name,
                        params |-> params,
                        row |-> row,
                        sql_str |-> query.sql.sql_str])

validate_query_pg(query) ==
    LET indexed == [k \in DOMAIN query.sql.bind_params |-> i16_index(query.sql.bind_params[k])]
    IN IF first_failure(indexed) # None THEN first_failure(indexed)
       ELSE LET bind_params == [k \in DOMAIN indexed |-> indexed[k].value]
                deduped_bind_params == pg_deduped_bind_params(bind_params)
                guard == named_struct_in_pg_query(query.annotation)
            IN IF ~is_ok(guard) THEN guard
               ELSE LET params == guard.value.param
                        row == guard.value.row
                        more == more_bind_params_than_params(params, deduped_bind_params)
                        unused == unused_param(params, bind_params)
                    IN IF ~is_ok(more) THEN more
                       ELSE IF ~is_ok(unused) THEN unused
                       ELSE Ok([variant |-> "PgCompatible",
                                name |-> query.annotation.name,
                                params |-> params,
                                row |-> row,
                                sql_str |-> query.sql.sql_str])

validate_query(query) ==
    LET param_dup == IF query.annotation.param.variant = "Implicit"
                     THEN duplicate_nullable_ident(query.annotation.param.idents)
                     ELSE Ok(Unit)
        row_dup == IF query.annotation.row.variant = "Implicit"
                   THEN duplicate_nullable_ident(query.annotation.row.idents)
                   ELSE Ok(Unit)
        is_extended_syntax == ambiguous_bind_param(query.sql.bind_params)
    IN IF ~is_ok(param_dup) THEN param_dup
       ELSE IF ~is_ok(row_dup) THEN row_dup
       ELSE IF ~is_ok(is_extended_syntax) THEN is_extended_syntax
       ELSE IF is_extended_syntax.value THEN validate_query_extended(query)
       ELSE validate_query_pg(query)

\* a plausible slip: the registries chained in another order
type_chain_db_first(module) == module.db_types \o module.row_types \o module.param_types

\* param_types.iter().chain(row_types.iter()).chain(db_types.iter())
type_chain(module) == module.param_types \o module.row_types \o module.db_types

ValidatedModule(module, queries) ==
    [param_types |-> module.param_types,
     row_types |-> module.row_types,
     db_types |-> module.db_types,
     queries |-> queries]

----------------------------------------------------------------------------
(* Inputs *)
(* The parser's output, enumerated: values drawn from small sets, offsets     *)
(* laid out as in a source file, every token at an offset of its own.         *)

sA == <<1>>
sB == <<2>>
sAB == <<1, 2>>

\* where a query's parts start, relative to the query; queries and declared
\* types follow each other at a fixed distance
At == [name |-> 0, param |-> 10, row |-> 30, sql |-> 50, next |-> 100,
       param_types |-> 1000, row_types |-> 2000, db_types |-> 3000]

Token(start, v) == [start |-> start, end |-> start + 3, value |-> v]

Layout(base, vals) == [k \in 1..Len(vals) |-> Token(base + 4 * (k - 1), vals[k])]

PreparedFields == [name : {sA, sB}, is_nullable : BOOLEAN]

PgCompatible(n) == [variant |-> "PgCompatible", index |-> n]
Extended(s) == [variant |-> "Extended", name |-> s]

NullableIdents == [name : {sA, sB}, nullable : BOOLEAN]

MixedBindParams == {PgCompatible(1), PgCompatible(2), Extended(sA), Extended(sB)}

\* indices around 0, around i16::MAX and around 2^16, where a cast would wrap
IndexSamples ==
    (0..MaxIndex) \cup {I16_MAX - 1, I16_MAX}
    \cup {I16_MAX + k : k \in 1..(MaxIndex + 1)}
    \cup {2 * (I16_MAX + 1) + k : k \in 0..MaxIndex}

\* the first n declared parameters of a query: distinct names
DeclaredParams(n) == Layout(At.param, [k \in 1..n |-> [name |-> <<k>>, nullable |-> FALSE]])

Implicit(base, vals) == [variant |-> "Implicit", idents |-> Layout(base, vals)]
Named(base, s) == [variant |-> "Named", name |-> Token(base, s)]

\* the shapes of a param or row annotation, before offsets are given
FieldLists == SeqsUpTo([name : {sA, sB}, nullable : {FALSE}], MaxParams)
Structures == [variant : {"Implicit"}, fields : FieldLists]
                  \cup [variant : {"Named"}, name : {sAB}]

Structure(base, st) ==
    IF st.variant = "Named" THEN Named(base, st.name) ELSE Implicit(base, st.fields)

\* the text of a query, as far as it matters here: its placeholders in order
SqlText(binds) == [text |-> "sql", placeholders |-> binds]

\* a parsed query that starts at offset base
Query(base, name, param, row, binds) ==
    [annotation |-> [name |-> Token(base + At.name, name),
                     param |-> Structure(base + At.param, param),
                     row |-> Structure(base + At.row, row)],
     sql |-> [bind_params |-> Layout(base + At.sql, binds), sql_str |-> SqlText(binds)],
     sql_start |-> base + At.sql]

NoFields == [variant |-> "Implicit", fields |-> <<>>]
Fields(names) ==
    [variant |-> "Implicit",
     fields |-> [k \in DOMAIN names |-> [name |-> names[k], nullable |-> FALSE]]]

RowStructures == {NoFields, Fields(<<sA, sA>>), [variant |-> "Named", name |-> sAB]}

\* the bind parameters of a query: indexed ones, named ones, or a short mix
IndexedBindParams == {PgCompatible(n) : n \in (0..MaxIndex) \cup {40000}}
NamedBindParams == {Extended(sA), Extended(sB), Extended(sAB)}
QueryBindParams ==
    SeqsUpTo(IndexedBindParams, MaxBind) \cup SeqsUpTo(NamedBindParams, MaxBind)
        \cup SeqsUpTo(IndexedBindParams \cup NamedBindParams, 2)

\* the queries of the modules: one of each outcome of validate_query
ModuleQueryBodies ==
    {[param |-> Fields(<<sA>>), row |-> NoFields, binds |-> <<PgCompatible(1)>>],
     [param |-> NoFields, row |-> NoFields, binds |-> <<Extended(sA)>>],
     [param |-> Fields(<<sA, sA>>), row |-> NoFields, binds |-> <<PgCompatible(1)>>],
     [param |-> Fields(<<sA>>), row |-> NoFields,
      binds |-> <<PgCompatible(1), Extended(sA)>>],
     [param |-> Fields(<<sA>>), row |-> NoFields, binds |-> <<PgCompatible(2)>>],
     [param |-> [variant |-> "Named", name |-> sAB], row |-> NoFields,
      binds |-> <<PgCompatible(1)>>]}

ModuleQueries == [name : {sA, sB}, body : ModuleQueryBodies]

ParsedQueries(qs) ==
    [k \in DOMAIN qs |-> Query(At.next * (k - 1), qs[k].name, qs[k].body.param,
                               qs[k].body.row, qs[k].body.binds)]

\* a declared type: TypeAnnotationListItem {name, fields}
TypeItem(base, name, names) ==
    [name |-> Token(base, name),
     fields |-> Layout(base + At.param,
                       [k \in DOMAIN names |-> [name |-> names[k], nullable |-> FALSE]])]

Registry(base, kinds) ==
    [k \in DOMAIN kinds |->
        TypeItem(base + At.next * (k - 1), <<k>>,
                 IF kinds[k] = "dup" THEN <<sA, sB, sA>> ELSE <<sA, sB>>)]

ParsedModules ==
    {[param_types |-> Registry(At.param_types, pt),
      row_types |-> Registry(At.row_types, rt),
      db_types |-> Registry(At.db_types, dt),
      queries |-> ParsedQueries(qs)] :
        pt \in {<<>>, <<"ok">>, <<"ok", "dup">>},
        rt \in {<<>>, <<"dup">>},
        dt \in {<<>>, <<"dup">>},
        qs \in SeqsUpTo(ModuleQueries, MaxModuleQueries)}

----------------------------------------------------------------------------
(* The state machine *)

Init ==
    /\ pc = "idle"
    /\ call = [op |-> "none"]
    /\ result = None
    /\ i = 0
    /\ validated_queries = <<>>
    /\ steps = <<>>
    /\ spawned = "no"
    /\ nb_retries = 0
    /\ probes = <<>>
    /\ notices = 0

\* a validator was called as c and returned r
Return(c, r) ==
    /\ pc' = "returned"
    /\ call' = c
    /\ result' = r
    /\ UNCHANGED <<i, validated_queries, steps>>
    /\ UNCHANGED container_vars

Call_named_struct_field ==
    /\ pc = "idle"
    /\ \E prev \in SeqsUpTo(PreparedFields, MaxPrepared),
       fields \in SeqsUpTo(PreparedFields, MaxPrepared) :
        LET name == [start |-> 7, end |-> 9, value |-> sA]
        IN Return([op |-> "named_struct_field", name |-> name,
                   prev_fields |-> prev, fields |-> fields],
                  named_struct_field(name, prev, fields))

Call_ambiguous_bind_param ==
    /\ pc = "idle"
    /\ \E vals \in SeqsUpTo(MixedBindParams, MaxBind) :
        LET bind_params == Layout(At.sql, vals)
        IN Return([op |-> "ambiguous_bind_param", bind_params |-> bind_params],
                  ambiguous_bind_param(bind_params))

Call_duplicate_nullable_ident ==
    /\ pc = "idle"
    /\ \E vals \in SeqsUpTo(NullableIdents, MaxIdents) :
        LET idents == Layout(At.param, vals)
        IN Return([op |-> "duplicate_nullable_ident", idents |-> idents],
                  duplicate_nullable_ident(idents))

Call_i16_index ==
    /\ pc = "idle"
    /\ \E n \in IndexSamples, k \in 1..MaxBind :
        LET bind_param == Layout(At.sql, [j \in 1..k |-> PgCompatible(n)])[k]
        IN Return([op |-> "i16_index", bind_param |-> bind_param],
                  i16_index(bind_param))

Call_named_struct_in_pg_query ==
    /\ pc = "idle"
    /\ \E param \in Structures, row \in Structures :
        LET annotation == Query(0, sA, param, row, <<>>).annotation
        IN Return([op |-> "named_struct_in_pg_query", annotation |-> annotation],
                  named_struct_in_pg_query(annotation))

\* the indices are those of validate_query's PgCompatible path: each i16_index
\* accepted, and the list sorted and deduplicated for the first check
Call_more_bind_params_than_params ==
    /\ pc = "idle"
    /\ \E n \in 0..MaxParams, vals \in SeqsUpTo(1..MaxIndex, MaxBind) :
        LET params == DeclaredParams(n)
            bind_params == Layout(At.sql, vals)
            deduped_bind_params == pg_deduped_bind_params(bind_params)
        IN Return([op |-> "more_bind_params_than_params", params |-> params,
                   bind_params |-> bind_params,
                   deduped_bind_params |-> deduped_bind_params],
                  more_bind_params_than_params(params, deduped_bind_params))

Call_unused_param ==
    /\ pc = "idle"
    /\ \E n \in 0..MaxParams, vals \in SeqsUpTo(1..MaxIndex, MaxBind) :
        LET params == DeclaredParams(n)
            bind_params == Layout(At.sql, vals)
        IN Return([op |-> "unused_param", params |-> params,
                   bind_params |-> bind_params],
                  unused_param(params, bind_params))

Call_query_name_already_used ==
    /\ pc = "idle"
    /\ \E names \in SeqsUpTo({sA, sB, sAB}, MaxQueries) :
        LET queries == [k \in DOMAIN names |->
                           Query(At.next * (k - 1), names[k], NoFields, NoFields, <<>>)]
        IN Return([op |-> "query_name_already_used", queries |-> queries],
                  query_name_already_used(queries))

Call_validate_query ==
    /\ pc = "idle"
    /\ \E param \in Structures, row \in RowStructures,
       binds \in QueryBindParams :
        LET query == Query(0, sA, param, row, binds)
        IN Return([op |-> "validate_query", query |-> query], validate_query(query))

(* validate_module, one check at a time *)

Call_validate_module ==
    /\ pc = "idle"
    /\ \E module \in ParsedModules :
        /\ pc' = "vm_names"
        /\ call' = [op |-> "validate_module", module |-> module]
        /\ UNCHANGED <<result, i, validated_queries, steps>>
        /\ UNCHANGED container_vars

\* the check returned r: on Ok go on at pc next, otherwise return r
Propagate(r, next) ==
    IF is_ok(r)
    THEN pc' = next /\ UNCHANGED result
    ELSE pc' = "returned" /\ result' = r

vm_query_names ==
    /\ pc = "vm_names"
    /\ Propagate(query_name_already_used(call.module.queries), "vm_types")
    /\ i' = 1
    /\ steps' = Append(steps, <<"query_name_already_used">>)
    /\ UNCHANGED <<call, validated_queries>>
    /\ UNCHANGED container_vars

vm_type ==
    /\ pc = "vm_types"
    /\ i <= Len(type_chain(call.module))
    /\ Propagate(duplicate_nullable_ident(type_chain(call.module)[i].fields), "vm_types")
    /\ i' = i + 1
    /\ steps' = Append(steps, <<"duplicate_nullable_ident", type_chain(call.module)[i].name.start>>)
    /\ UNCHANGED <<call, validated_queries>>
    /\ UNCHANGED container_vars

vm_types_done ==
    /\ pc = "vm_types"
    /\ i > Len(type_chain(call.module))
    /\ pc' = "vm_queries"
    /\ i' = 1
    /\ UNCHANGED <<call, result, validated_queries, steps>>
    /\ UNCHANGED container_vars

\* on an error the queries validated so far are dropped with the function's frame
vm_query ==
    /\ pc = "vm_queries"
    /\ i <= Len(call.module.queries)
    /\ LET r == validate_query(call.module.queries[i])
       IN /\ Propagate(r, "vm_queries")
          /\ validated_queries' = IF is_ok(r) THEN Append(validated_queries, r.value)
                                  ELSE <<>>
    /\ i' = i + 1
    /\ steps' = Append(steps, <<"validate_query", i>>)
    /\ UNCHANGED call
    /\ UNCHANGED container_vars

vm_return ==
    /\ pc = "vm_queries"
    /\ i > Len(call.module.queries)
    /\ pc' = "returned"
    /\ result' = Ok(ValidatedModule(call.module, validated_queries))
    /\ UNCHANGED <<call, i, validated_queries, steps>>
    /\ UNCHANGED container_vars

(* container.rs: setup, one subprocess at a time *)

\* healthcheck gives up when the counter has reached max_retries
retries_exhausted(retries, max_retries) == retries >= max_retries

\* Command::status() of `run`: the runtime could not be started, or the
\* command exited with or without success
SpawnOutcomes == {"io_error", "failure", "success"}

\* is_postgres_healthy: pg_isready could not be run, or exited with or
\* without success
ProbeOutcomes == {"io_error", "healthy", "unhealthy"}

Call_setup ==
    /\ pc = "idle"
    /\ \E podman \in BOOLEAN :
        /\ pc' = "spawn_container"
        /\ call' = [op |-> "setup", podman |-> podman]
    /\ UNCHANGED <<result, i, validated_queries, steps>>
    /\ UNCHANGED container_vars

\* spawn_container(podman)?; on success healthcheck starts with nb_retries = 0
setup_spawn_container ==
    /\ pc = "spawn_container"
    /\ \E outcome \in SpawnOutcomes :
        /\ spawned' = outcome
        /\ IF outcome = "success"
           THEN pc' = "healthcheck" /\ UNCHANGED result
           ELSE /\ pc' = "returned"
                /\ result' = Err([variant |-> "RunContainer",
                                  source |-> IF outcome = "io_error" THEN "Io"
                                             ELSE "Status"])
    /\ nb_retries' = 0
    /\ UNCHANGED <<call, i, validated_queries, steps, probes, notices>>

\* the head of a turn of healthcheck's loop: the probe and, when it is
\* unhealthy, the check of the budget; with budget left healthcheck goes to
\* sleep, its counter not yet raised
setup_healthcheck ==
    /\ pc = "healthcheck"
    /\ \E outcome \in ProbeOutcomes :
        /\ probes' = Append(probes, outcome)
        /\ IF outcome = "io_error"
           THEN /\ pc' = "returned"
                /\ result' = Err([variant |-> "HealthCheck"])
           ELSE IF outcome = "healthy"
           THEN /\ pc' = "returned"
                /\ result' = Ok(Unit)
           ELSE IF retries_exhausted(nb_retries, MaxRetries)
           THEN /\ pc' = "returned"
                /\ result' = Err([variant |-> "MaxNbRetries"])
           ELSE /\ pc' = "sleep"
                /\ UNCHANGED result
    /\ UNCHANGED <<call, i, validated_queries, steps, spawned, nb_retries, notices>>

\* println! of the progress notice: the line is written, or stdout cannot be
\* written (a closed pipe, a full device) and println! panics
PrintlnOutcomes == {"written", "panic"}

\* the rest of the turn, once thread::sleep(ms_per_retry) has returned: the
\* counter is raised and every tenth retry prints a notice; the loop then
\* goes back to its probe, unless println! panicked: the panic unwinds out of
\* setup, which returns nothing
setup_healthcheck_sleep ==
    /\ pc = "sleep"
    /\ nb_retries' = nb_retries + 1
    /\ IF (nb_retries + 1) % NoticeEvery = 0
       THEN \E outcome \in PrintlnOutcomes :
               IF outcome = "written"
               THEN /\ notices' = notices + 1
                    /\ pc' = "healthcheck"
                    /\ UNCHANGED result
               ELSE /\ pc' = "panicked"
                    /\ result' = Panic
                    /\ UNCHANGED notices
       ELSE /\ pc' = "healthcheck"
            /\ UNCHANGED <<result, notices>>
    /\ UNCHANGED <<call, i, validated_queries, steps, spawned, probes>>

SetupNext ==
    \/ Call_setup
    \/ setup_spawn_container
    \/ setup_healthcheck
    \/ setup_healthcheck_sleep

Next ==
    \/ Call_named_struct_field
    \/ Call_ambiguous_bind_param
    \/ Call_duplicate_nullable_ident
    \/ Call_i16_index
    \/ Call_named_struct_in_pg_query
    \/ Call_more_bind_params_than_params
    \/ Call_unused_param
    \/ Call_query_name_already_used
    \/ Call_validate_query
    \/ Call_validate_module
    \/ vm_query_names
    \/ vm_type
    \/ vm_types_done
    \/ vm_query
    \/ vm_return
    \/ Call_setup
    \/ setup_spawn_container
    \/ setup_healthcheck
    \/ setup_healthcheck_sleep

Spec == Init /\ [][Next]_vars

\* setup alone.  Every subprocess setup waits for ends, and the sleep between
\* two probes ends: a step of setup that can be taken is taken.
SetupSpec ==
    Init /\ [][SetupNext]_vars
        /\ WF_vars(setup_spawn_container) /\ WF_vars(setup_healthcheck)
        /\ WF_vars(setup_healthcheck_sleep)

----------------------------------------------------------------------------
(* Claims *)

Returned(op) == pc = "returned" /\ call.op = op

\* C1 (as claimed): named_struct_field returns Ok exactly when the two field
\* lists have equal length and are set-equal by field identity (name and
\* nullability); in every other case it returns NamedStructInvalidFields with
\* expected = prev_fields and actual = fields.
C1_OkIffSameFields ==
    Returned("named_struct_field") =>
        LET same == /\ Len(call.prev_fields) = Len(call.fields)
                    /\ Range(call.prev_fields) = Range(call.fields)
        IN /\ is_ok(result) <=> same
           /\ ~same => result = Err([variant |-> "NamedStructInvalidFields",
                                      expected |-> call.prev_fields,
                                      actual |-> call.fields,
                                      name |-> call.name])

\* C2: ambiguous_bind_param yields Extended for an empty list, the variant of
\* the first element for a list of one variant, and for a mixed list fails
\* with AmbiguousBindParam at the start of the first element whose variant
\* differs from the first element's, never at the first element's position.
C2_DialectOfFirstOrFirstDiffering ==
    Returned("ambiguous_bind_param") =>
        LET bp == call.bind_params
            differs(k) == bp[k].value.variant # bp[1].value.variant
            mixed == \E k \in DOMAIN bp : differs(k)
        IN /\ bp = <<>> => result = Ok(TRUE)
           /\ (bp # <<>> /\ ~mixed) =>
                  result = Ok(bp[1].value.variant = "Extended")
           /\ mixed =>
                  \E k \in DOMAIN bp :
                      /\ differs(k)
                      /\ \A j \in 1..(k - 1) : ~differs(j)
                      /\ result = Err([variant |-> "AmbiguousBindParam",
                                       pos |-> bp[k].start])
                      /\ result.err.pos # bp[1].start

\* a mixed list whose second element still agrees with the first
C2_MixedAtThird ==
    /\ Returned("ambiguous_bind_param")
    /\ Len(call.bind_params) = 3
    /\ call.bind_params[1].value.variant = "PgCompatible"
    /\ call.bind_params[2].value.variant = "PgCompatible"
    /\ call.bind_params[3].value.variant = "Extended"
    /\ is_err(result)

\* C3: duplicate_nullable_ident fails exactly when some field name occurs
\* more than once; it then reports DuplicateCol at the start of the earliest
\* field that repeats the name of a field before it; the nullability override
\* plays no part in what counts as a repeat.
C3_DuplicateAtSecondOccurrence ==
    Returned("duplicate_nullable_ident") =>
        LET ids == call.idents
            repeats(k) == \E j \in 1..(k - 1) : ids[j].value.name = ids[k].value.name
        IN /\ is_err(result) <=>
                  \E j, k \in DOMAIN ids : j # k /\ ids[j].value.name = ids[k].value.name
           /\ is_ok(result) \/ is_err(result)
           /\ is_err(result) =>
                  \E k \in DOMAIN ids :
                      /\ repeats(k)
                      /\ \A j \in 1..(k - 1) : ~repeats(j)
                      /\ result = Err([variant |-> "DuplicateCol", pos |-> ids[k].start])

\* two fields of one name and different nullability, found as a duplicate,
\* in a list where a later name repeats before the first name does
C3_SameNameOtherNullability ==
    /\ Returned("duplicate_nullable_ident")
    /\ Len(call.idents) = 4
    /\ call.idents[1].value.name = call.idents[4].value.name
    /\ call.idents[2].value.name = call.idents[3].value.name
    /\ call.idents[2].value.nullable # call.idents[3].value.nullable
    /\ call.idents[1].value.name # call.idents[2].value.name
    /\ result = Err([variant |-> "DuplicateCol", pos |-> call.idents[3].start])

\* C4: i16_index on a PgCompatible parameter with index n succeeds exactly when
\* 1 <= n <= 32767, returning start, end and n unchanged; for n = 0 and every
\* n > 32767 it fails with InvalidI16Index at the parameter's start.
C4_IndexInI16Range ==
    Returned("i16_index") =>
        LET bp == call.bind_param
            n == bp.value.index
        IN IF 1 <= n /\ n <= 32767
           THEN result = Ok([start |-> bp.start, end |-> bp.end, value |-> n])
           ELSE result = Err([variant |-> "InvalidI16Index", pos |-> bp.start])

\* an index that a 16-bit truncation would map to 1 is rejected
C4_WrapRejected ==
    /\ Returned("i16_index")
    /\ call.bind_param.value.index = 65537
    /\ is_err(result)

\* C5: more_bind_params_than_params, given the declared parameters and the
\* sorted, deduplicated bind indices, fails exactly when some bind index is
\* greater than the number of declared parameters; it then reports the first
\* such index of the deduplicated sorted list, by its source position, with
\* nb_params the number of declared parameters.
C5_FirstIndexOverCount ==
    Returned("more_bind_params_than_params") =>
        LET n == Len(call.params)
            raw == call.bind_params
            d == call.deduped_bind_params
        IN /\ \A j, k \in DOMAIN d : j < k => d[j].value < d[k].value
           /\ \A k \in DOMAIN d : d[k] \in Range(raw)
           /\ {d[k].value : k \in DOMAIN d} = {raw[k].value : k \in DOMAIN raw}
           /\ is_err(result) <=> \E k \in DOMAIN raw : raw[k].value > n
           /\ is_ok(result) \/ is_err(result)
           /\ is_err(result) =>
                  \E k \in DOMAIN d :
                      /\ d[k].value > n
                      /\ \A j \in 1..(k - 1) : d[j].value <= n
                      /\ result = Err([variant |-> "MoreBindParamsThanParams",
                                       nb_params |-> n, pos |-> d[k].start])

\* $3 $1 $3 against two declared parameters: the position is that of the first $3
C5_RepeatedIndexOverCount ==
    /\ Returned("more_bind_params_than_params")
    /\ Len(call.params) = 2
    /\ Len(call.bind_params) = 3
    /\ call.bind_params[1].value = 3
    /\ call.bind_params[2].value = 1
    /\ call.bind_params[3].value = 3
    /\ is_err(result)
    /\ result.err.pos = call.bind_params[1].start
    /\ result.err.nb_params = 2

\* C6: unused_param fails exactly when some position k in 1..len(params) is
\* matched by no bind index; it then reports the smallest such k as index, at
\* the source position of the k-th declared parameter.  So every PgCompatible
\* query that validate_query accepts uses each declared parameter at least once.
C6_SmallestUnusedParam ==
    /\ Returned("unused_param") =>
        LET n == Len(call.params)
            unused(k) == \A j \in DOMAIN call.bind_params : call.bind_params[j].value # k
        IN /\ is_err(result) <=> \E k \in 1..n : unused(k)
           /\ is_ok(result) \/ is_err(result)
           /\ is_err(result) =>
                  \E k \in 1..n :
                      /\ unused(k)
                      /\ \A j \in 1..(k - 1) : ~unused(j)
                      /\ result = Err([variant |-> "UnusedParam", index |-> k,
                                       pos |-> call.params[k].start])
    /\ (Returned("validate_query") /\ is_ok(result)
            /\ result.value.variant = "PgCompatible") =>
        \A k \in 1..Len(result.value.params) :
            \E j \in DOMAIN call.query.sql.bind_params :
                call.query.sql.bind_params[j].value = PgCompatible(k)

\* two declared parameters, only $1 bound, three times over
C6_SecondParamUnused ==
    /\ Returned("unused_param")
    /\ Len(call.params) = 2
    /\ Len(call.bind_params) = 3
    /\ \A j \in 1..3 : call.bind_params[j].value = 1
    /\ result = Err([variant |-> "UnusedParam", index |-> 2,
                     pos |-> call.params[2].start])

\* C7: query_name_already_used fails exactly when two distinct queries have the
\* same name; the error is for the first pair with equal names, each query in
\* declaration order taken against every other query in declaration order,
\* and carries the name tokens (so the positions) of both queries of the
\* pair; with all names distinct it returns Ok.
C7_FirstPairOfEqualNames ==
    Returned("query_name_already_used") =>
        LET qs == call.queries
            clash(j, k) == j # k /\ qs[j].annotation.name.value = qs[k].annotation.name.value
            before(j, k, jj, kk) == j < jj \/ (j = jj /\ k <= kk)
        IN /\ is_err(result) <=> \E j, k \in DOMAIN qs : clash(j, k)
           /\ ~is_err(result) => result = Ok(Unit)
           /\ is_err(result) =>
                  \E j, k \in DOMAIN qs :
                      /\ clash(j, k)
                      /\ \A jj, kk \in DOMAIN qs : clash(jj, kk) => before(j, k, jj, kk)
                      /\ result = Err([variant |-> "QueryNameAlreadyUsed",
                                       name1 |-> qs[j].annotation.name,
                                       name2 |-> qs[k].annotation.name])

\* names x y x y: the pair reported is the first and the third query
C7_TwoClashingPairs ==
    /\ Returned("query_name_already_used")
    /\ Len(call.queries) = 4
    /\ call.queries[1].annotation.name.value = call.queries[3].annotation.name.value
    /\ call.queries[2].annotation.name.value = call.queries[4].annotation.name.value
    /\ call.queries[1].annotation.name.value # call.queries[2].annotation.name.value
    /\ is_err(result)
    /\ result.err.name1.start = call.queries[1].annotation.name.start
    /\ result.err.name2.start = call.queries[3].annotation.name.start

\* C8: named_struct_in_pg_query fails with NamedStructInPgQuery when the param
\* or the row is Named, the param looked at first, at the start of that struct
\* name; otherwise it returns the two Implicit field lists.  No unreachable
\* branch is hit, and a PgCompatible query that validate_query emits has
\* Implicit param and row, whose field lists it carries.
C8_NamedStructGuard ==
    /\ Returned("named_struct_in_pg_query") =>
        LET a == call.annotation
        IN IF a.param.variant = "Named"
           THEN result = Err([variant |-> "NamedStructInPgQuery", pos |-> a.param.name.start])
           ELSE IF a.row.variant = "Named"
           THEN result = Err([variant |-> "NamedStructInPgQuery", pos |-> a.row.name.start])
           ELSE result = Ok([param |-> a.param.idents, row |-> a.row.idents])
    /\ Returned("validate_query") =>
        /\ result # Panic
        /\ (is_ok(result) /\ result.value.variant = "PgCompatible") =>
              LET a == call.query.annotation
              IN /\ a.param.variant = "Implicit"
                 /\ a.row.variant = "Implicit"
                 /\ result.value.params = a.param.idents
                 /\ result.value.row = a.row.idents

\* an Implicit param with fields and a Named row: the row's name is reported
C8_NamedRowOnly ==
    /\ Returned("named_struct_in_pg_query")
    /\ call.annotation.param.variant = "Implicit"
    /\ Len(call.annotation.param.idents) = 2
    /\ call.annotation.row.variant = "Named"
    /\ result = Err([variant |-> "NamedStructInPgQuery",
                     pos |-> call.annotation.row.name.start])

\* the checks of validate_module on module m in the claimed order, and a label
\* for each: the name check, the declared types of the param, row and db
\* registries, the queries
C9_TypesOf(m) == m.param_types \o m.row_types \o m.db_types

C9_Checks(m) ==
    <<query_name_already_used(m.queries)>>
        \o [k \in DOMAIN C9_TypesOf(m) |-> duplicate_nullable_ident(C9_TypesOf(m)[k].fields)]
        \o [k \in DOMAIN m.queries |-> validate_query(m.queries[k])]

C9_Labels(m) ==
    << <<"query_name_already_used">> >>
        \o [k \in DOMAIN C9_TypesOf(m) |->
               <<"duplicate_nullable_ident", C9_TypesOf(m)[k].name.start>>]
        \o [k \in DOMAIN m.queries |-> <<"validate_query", k>>]

\* C9: validate_module runs the query-name check, then the duplicate-field
\* check on every declared type (param types, row types, db types), then
\* validate_query on each query in declaration order; it returns the error of
\* the first check that fails and runs no check after it; it returns Ok only
\* when every check succeeded, with one validated query per input query, in
\* order, and the three registries as they were given.
C9_FailFastInOrder ==
    call.op = "validate_module" =>
        LET m == call.module
            checks == C9_Checks(m)
            labels == C9_Labels(m)
            f == FirstIndex([k \in DOMAIN checks |-> ~is_ok(checks[k])])
        IN /\ Len(steps) <= Len(checks)
           /\ \A k \in DOMAIN steps : steps[k] = labels[k]
           /\ \A k \in 1..(Len(steps) - 1) : is_ok(checks[k])
           /\ pc # "returned" => result = None
           /\ pc = "returned" =>
                  IF f = 0
                  THEN /\ Len(steps) = Len(checks)
                       /\ is_ok(result)
                       /\ Len(result.value.queries) = Len(m.queries)
                       /\ \A k \in DOMAIN m.queries :
                              result.value.queries[k] = validate_query(m.queries[k]).value
                       /\ result.value.param_types = m.param_types
                       /\ result.value.row_types = m.row_types
                       /\ result.value.db_types = m.db_types
                  ELSE /\ Len(steps) = f
                       /\ is_err(result)
                       /\ result = checks[f]

\* a module whose name check, declared types and first query pass and whose
\* second query fails: validate_module returns that query's error
C9_SecondQueryFails ==
    /\ Returned("validate_module")
    /\ Len(call.module.queries) = 2
    /\ Len(call.module.param_types) = 1
    /\ Len(steps) = 4
    /\ steps[4] = <<"validate_query", 2>>
    /\ is_err(result)
    /\ result = validate_query(call.module.queries[2])

\* C10: on the Extended path validate_query emits bind_params sorted by name,
\* no name twice, the names being exactly those of the query's raw bind
\* parameters whatever their order and multiplicity; params and row are those
\* of the annotation.
C10_ExtendedBindParamsSortedSet ==
    (Returned("validate_query") /\ is_ok(result) /\ result.value.variant = "Extended") =>
        LET raw == call.query.sql.bind_params
            b == result.value.bind_params
        IN /\ \A j, k \in DOMAIN b : j < k => StrLess(b[j].value, b[k].value)
           /\ \A j, k \in DOMAIN b : j # k => b[j].value # b[k].value
           /\ {b[k].value : k \in DOMAIN b} = {raw[k].value.name : k \in DOMAIN raw}
           /\ result.value.params = call.query.annotation.param
           /\ result.value.row = call.query.annotation.row

\* :b :ab :b is emitted as ab, b
C10_RepeatedOutOfOrder ==
    /\ Returned("validate_query")
    /\ is_ok(result)
    /\ result.value.variant = "Extended"
    /\ Len(call.query.sql.bind_params) = 3
    /\ call.query.sql.bind_params[1].value.name = <<2>>
    /\ call.query.sql.bind_params[2].value.name = <<1, 2>>
    /\ call.query.sql.bind_params[3].value.name = <<2>>
    /\ Len(result.value.bind_params) = 2
    /\ result.value.bind_params[1].value = <<1, 2>>
    /\ result.value.bind_params[2].value = <<2>>


\* what setup may return, given how `run` ended and what the probes answered
C11_Outcome ==
    Returned("setup") =>
        LET n == Len(probes)
            all_unhealthy(m) == \A k \in 1..m : probes[k] = "unhealthy"
        IN /\ spawned # "success" =>
                  n = 0 /\ is_err(result) /\ result.err.variant = "RunContainer"
           /\ spawned = "success" =>
                  /\ n >= 1
                  /\ all_unhealthy(n - 1)
                  /\ probes[n] = "healthy" <=> result = Ok(Unit)
                  /\ probes[n] = "unhealthy" <=>
                         result = Err([variant |-> "MaxNbRetries"])
                  /\ probes[n] = "unhealthy" => n = 121 /\ nb_retries = 120

\* C11: setup always terminates, and it ends by returning, never by a panic.
\* Once the container is spawned, healthcheck returns Ok at the first healthy
\* probe, returns MaxNbRetries when the 120 retries are used up with every
\* probe unhealthy, and never probes more than 121 times; when the spawn fails
\* or exits non-zero no probe is run and setup fails with RunContainer.
C11_SetupTerminates ==
    /\ [](call.op = "setup" => Len(probes) <= 121)
    /\ [](pc = "spawn_container" => probes = <<>>)
    /\ [](pc \in {"healthcheck", "sleep"} =>
              spawned = "success" /\ \A k \in DOMAIN probes : probes[k] = "unhealthy")
    /\ [](pc = "healthcheck" => Len(probes) = nb_retries)
    /\ [](pc = "sleep" => Len(probes) = nb_retries + 1 /\ nb_retries < 120)
    /\ []C11_Outcome
    /\ [](call.op = "setup" => result # Panic)
    /\ (call.op = "setup") ~> (pc = "returned")

\* the checks of validate_query on query q in the claimed order, up to the
\* first one whose input a failed check before it would have had to supply:
\* duplicate fields of an Implicit param, of an Implicit row, the dialect,
\* then for the PgCompatible dialect every raw index in source order, the
\* named-struct guard, the overflow check, the unused-parameter check
C12_Steps(q) ==
    LET a == q.annotation
        raw == q.sql.bind_params
        head == <<IF a.param.variant = "Implicit"
                  THEN duplicate_nullable_ident(a.param.idents) ELSE Ok(Unit),
                  IF a.row.variant = "Implicit"
                  THEN duplicate_nullable_ident(a.row.idents) ELSE Ok(Unit),
                  ambiguous_bind_param(raw)>>
        pg == is_ok(head[3]) /\ ~head[3].value
        indexed == [k \in DOMAIN raw |-> i16_index(raw[k])]
        values == [k \in DOMAIN raw |-> indexed[k].value]
        guard == named_struct_in_pg_query(a)
        usage == IF is_ok(guard) /\ \A k \in DOMAIN raw : is_ok(indexed[k])
                 THEN <<more_bind_params_than_params(guard.value.param,
                                                     pg_deduped_bind_params(values)),
                        unused_param(guard.value.param, values)>>
                 ELSE <<>>
    IN IF pg THEN head \o indexed \o <<guard>> \o usage ELSE head

\* C12: validate_query returns the error of the first failing check in the
\* order: duplicate fields in an Implicit param, duplicate fields in an
\* Implicit row, dialect resolution, then on the PgCompatible path index
\* normalization of every raw bind parameter in source order, the named-struct
\* guard, the overflow check, the unused-parameter check; when several checks
\* fail only the earliest is reported; a PgCompatible query that passes them all
\* is emitted with the SQL text of the input.
C12_FirstFailingStep ==
    Returned("validate_query") =>
        LET q == call.query
            st == C12_Steps(q)
            f == FirstIndex([k \in DOMAIN st |-> ~is_ok(st[k])])
        IN /\ f # 0 => is_err(result) /\ result = st[f]
           /\ f = 0 => is_ok(result)
           /\ (is_ok(result) /\ result.value.variant = "PgCompatible") =>
                  /\ Len(st) = Len(q.sql.bind_params) + 6
                  /\ result.value.sql_str = q.sql.sql_str
                  /\ result.value.name = q.annotation.name

\* $1 $40000 with a Named param and a Named row fails the index narrowing,
\* the guard and more: the index of the second parameter is what is reported
C12_IndexBeforeGuard ==
    /\ Returned("validate_query")
    /\ call.query.annotation.param.variant = "Named"
    /\ call.query.annotation.row.variant = "Named"
    /\ Len(call.query.sql.bind_params) = 2
    /\ call.query.sql.bind_params[1].value = PgCompatible(1)
    /\ call.query.sql.bind_params[2].value = PgCompatible(40000)
    /\ result = Err([variant |-> "InvalidI16Index",
                     pos |-> call.query.sql.bind_params[2].start])

====
